---- MODULE Spec2Model ----
(***************************************************************************)
(* Self-play tree search of baselines/MCTS/save_1/mct1.py: the Pi_struct   *)
(* tree (state caching, policy targets, repeat sampling, exploration       *)
(* cursor, score write-back) and the resumable MCT.get_state driver.       *)
(*                                                                         *)
(* A node of the tree is named by the sequence of action indices that      *)
(* leads to it from the root; the root is << >>.  Vectors over the action  *)
(* space are functions on 0 .. size-1, as in the source.  One call of      *)
(* get_state is a run of steps between two visits of pc = "idle".          *)
(***************************************************************************)
EXTENDS Integers, Sequences, FiniteSets, TLC

\* ---------------------------------------------------------------- bounds
\* max_var passed to the constructor; the action space has 2 * max_var1 actions
max_var1 == 1
\* nrepeat is drawn from 1 .. MaxRepeat
MaxRepeat == 2
\* every visit count of the environment is in 0 .. MaxCount
MaxCount == 1
\* the environment answers at most MaxSims simulate calls per node with a
\* "need more" flag; after that it reports that it has enough statistics
MaxSims == 2
\* the environment has at most MaxPositions positions that are not done,
\* the start position included
MaxPositions == 2
\* the small resign depth tried besides the default one: small enough for
\* a rollout to be cut at it before the environment is done
SmallResign == 0
\* get_nrepeat_count and get_PI are also applied on their own, to vectors
\* over 1 .. MaxNact actions and to sequences of at most MaxLen samples
MaxNact == 3
MaxLen == 3

\* the default of the resign parameter
DefaultResign == 1000000
\* the factor of the tolerance 0.999999 of the policy-mass assertion
Million == 1000000

Size == max_var1 * 2
Acts == 0 .. (Size - 1)
Root == << >>
NoNode == << -1 >>
\* the value None of self.state (resetAt of a trivial instance)
NoState == [pos |-> NoNode, mask |-> [a \in Acts |-> FALSE], sims |-> 0]
Zeros == [a \in Acts |-> 0]
NoPi == [num |-> Zeros, den |-> 0]
\* The temperature schedule tau, given as 1 / tau(level): no sharpening at
\* the root, tau = 0.1 below it
tau_inv(level) == IF level = 0 THEN 1 ELSE 10
Resigns == {SmallResign, DefaultResign}
\* the index of the problem file
FileNos == {7}
Masks == [Acts -> BOOLEAN]
CountVecs == [Acts -> 0 .. MaxCount]

\* ------------------------------------------------------- numeric helpers
RECURSIVE SumOver(_, _)
SumOver(f, S) ==
    IF S = {} THEN 0
    ELSE LET a == CHOOSE x \in S : TRUE IN f[a] + SumOver(f, S \ {a})

Sum(f) == SumOver(f, DOMAIN f)

\* (v * mask).sum()
MaskedSum(v, mask) == SumOver(v, {a \in DOMAIN v : mask[a]})

RECURSIVE Pow(_, _)
Pow(b, e) == IF e = 0 THEN 1 ELSE b * Pow(b, e - 1)

RECURSIVE Gcd(_, _)
Gcd(a, b) == IF b = 0 THEN a ELSE Gcd(b, a % b)

RECURSIVE GcdOver(_, _)
GcdOver(f, S) ==
    IF S = {} THEN 0
    ELSE LET a == CHOOSE x \in S : TRUE IN Gcd(f[a], GcdOver(f, S \ {a}))

\* A vector of non-negative rationals with a common denominator, in lowest
\* terms: Pi[a] = num[a] / den.  den = 0 stands for the nan vector that a
\* division by a zero sum produces.
Normalised(w) ==
    LET g == GcdOver(w, DOMAIN w)
    IN  IF g = 0 THEN [num |-> w, den |-> 0]
        ELSE [num |-> [a \in DOMAIN w |-> w[a] \div g], den |-> Sum(w) \div g]

\* a get_PI whose loop runs at most once and forgets the remaining exponent
get_PI_once(counts, p) ==
    Normalised([a \in DOMAIN counts |-> Pow(counts[a], IF p >= 10 THEN 10 ELSE p)])

\* get_PI: p = 1 / tau; while p >= 10 the vector is raised to the 10th power
\* and renormalised, then raised to the remaining power and renormalised.
\* p is a power of ten here, so the remaining power is a whole number.
RECURSIVE get_PI(_, _)
get_PI(counts, p) ==
    IF p >= 10
    THEN get_PI(Normalised([a \in DOMAIN counts |-> Pow(counts[a], 10)]).num, p \div 10)
    ELSE Normalised([a \in DOMAIN counts |-> Pow(counts[a], p)])

\* get_nrepeat_count: sort the sampled actions, then count the runs
RECURSIVE nrepeat_loop(_, _, _, _, _)
nrepeat_loop(action, i, base, start, counts) ==
    IF i >= Len(action)
    THEN [counts EXCEPT ![base] = Len(action) - start]
    ELSE IF action[i + 1] > base
         THEN nrepeat_loop(action, i + 1, action[i + 1], i,
                           [counts EXCEPT ![base] = i - start])
         ELSE nrepeat_loop(action, i + 1, base, start, counts)

\* a get_nrepeat_count that counts the runs of the samples as they come
get_nrepeat_count_unsorted(action, nact) ==
    nrepeat_loop(action, 0, 0, 0, [a \in 0 .. (nact - 1) |-> 0])

get_nrepeat_count(action, nact) ==
    nrepeat_loop(SortSeq(action, LAMBDA x, y : x < y), 0, 0, 0, [a \in 0 .. (nact - 1) |-> 0])

\* ------------------------------------------------------------- Pi_struct
\* Pi_struct.__init__.  file_no and tau are the same for the whole tree and
\* are kept once, in the variable file_no and the operator tau_inv.
\* credited[a] is a history field: the number of set_next calls made while
\* the cursor was a.  nstate is a history field too: the number of add_state
\* calls made on the node; so are handed, the number of set_next calls the
\* node made on its parent, handedScore, the score it passed last, and
\* leafRepeats, the nrepeats of the rollouts that ended at a step from it.
Pi_struct(size, repeat, level, parent) ==
    [size |-> size, repeat |-> repeat, level |-> level, parent |-> parent,
     children |-> {}, next |-> 0, score |-> 0, evaluated |-> FALSE,
     hasState |-> FALSE, isValid |-> [a \in 0 .. (size - 1) |-> FALSE],
     state |-> NoState, Pi |-> NoPi,
     nrepeats |-> [a \in 0 .. (size - 1) |-> 0],
     credited |-> [a \in 0 .. (size - 1) |-> 0],
     nstate |-> 0, handed |-> 0, handedScore |-> 0, leafRepeats |-> 0]

\* add_state: isValid is the reduction of the observation over its feature
\* axes (the mask of the observation), the observation itself is cached
\* an add_state that caches the observation and forgets the mask
add_state_noMask(nd, st) ==
    [nd EXCEPT !.state = st, !.hasState = TRUE, !.nstate = @ + 1]

add_state(nd, st) ==
    [nd EXCEPT !.isValid = st.mask, !.state = st, !.hasState = TRUE,
               !.nstate = @ + 1]

\* first assertion of add_counts: counts.sum() == (counts * isValid).sum()
CountsConcentrated(counts, isValid) == Sum(counts) = MaskedSum(counts, isValid)

\* second assertion of add_counts: (isValid * Pi).sum() > 0.999999; a nan
\* policy fails it
PiMassOK(Pi, isValid) ==
    /\ Pi.den > 0
    /\ (Pi.den - MaskedSum(Pi.num, isValid)) < (Pi.den + Million - 1) \div Million

\* a draw that ignores the policy: any action can come up
Samples_any(Pi, repeat) == [1 .. repeat -> DOMAIN Pi.num]

\* np.random.choice(range(size), repeat, p = Pi): every sequence of repeat
\* actions of positive probability can be drawn
Samples(Pi, repeat) == [1 .. repeat -> {a \in DOMAIN Pi.num : Pi.num[a] > 0}]

\* third assertion of add_counts: repeat == (nrepeats * isValid).sum()
RepeatsOK(nrepeats, isValid, repeat) == repeat = MaskedSum(nrepeats, isValid)

\* the keys of the children created by add_counts: nrepeats[i] > 0.5
ChildKeys(nd, nrepeats) == {i \in 0 .. (nd.size - 1) : 2 * nrepeats[i] > 1}

\* a get_next that never moves the cursor
SkipAt_never(nd, k) == FALSE

\* the condition under which get_next moves the cursor past index k
SkipAt(nd, k) == k < nd.size /\ (2 * nd.nrepeats[k] < 1 \/ ~nd.isValid[k])

RECURSIVE SkipFrom(_, _)
SkipFrom(nd, k) == IF SkipAt(nd, k) THEN SkipFrom(nd, k + 1) ELSE k

\* get_next: the cursor after the skipping loop, and the value returned
get_next(nd) ==
    LET k == SkipFrom(nd, nd.next)
    IN  [next |-> k, ret |-> IF k >= nd.size THEN -1 ELSE k]

\* a set_next that leaves the cursor where it is
CursorStep_stay(k) == k

\* a set_next that moves the cursor on by two
CursorStep_two(k) == k + 2

\* set_next, line 121: the cursor moves on by one
CursorStep(k) == k + 1

\* a set_next that never recurses to the parent
ShouldRecurse_never(ret, parent) == FALSE

\* a set_next that recurses to the parent after every call
ShouldRecurse_always(ret, parent) == parent # NoNode

\* set_next, line 123: the node is exhausted and has a parent
ShouldRecurse(ret, parent) == ret < 0 /\ parent # NoNode

\* a set_next that hands the last score, not the total, upwards
Contribution_last(nd, additional_score) == additional_score

\* set_next, line 124: what an exhausted node hands to its parent
Contribution(nd, additional_score) == nd.score

\* set_next on node n of tree t: add the score, move the cursor, and recurse
\* to the parent when this node has no action left.  Returns the tree, the
\* value returned and the number of nested set_next calls made (chain).
RECURSIVE set_next(_, _, _)
set_next(t, n, additional_score) ==
    LET nd0 == t[n]
        nd1 == [nd0 EXCEPT !.score = @ + additional_score,
                           !.credited[nd0.next] = @ + 1,
                           !.next = CursorStep(@)]
        g   == get_next(nd1)
        nd2 == [nd1 EXCEPT !.next = g.next]
        t2  == [t EXCEPT ![n] = nd2]
        c   == Contribution(nd2, additional_score)
        up  == set_next([t2 EXCEPT ![n].handed = @ + 1, ![n].handedScore = c],
                        nd2.parent, c)
    IN  IF ShouldRecurse(g.ret, nd2.parent)
        THEN [up EXCEPT !.chain = @ + 1]
        ELSE [tree |-> t2, ret |-> g.ret, chain |-> 1]

\* ------------------------------------------------------------------ state
VARIABLES
    file_no,     \* MCT.file_no
    resign,      \* MCT.resign (-1: not set, trivial instance)
    min_step,    \* MCT.min_step (-1: not set)
    max_step,    \* MCT.max_step (-1: not set)
    phase,       \* MCT.phase: "False" running, "True" paused, "None" finished
    state,       \* MCT.state: the latest observation of the environment
    Pi_root,     \* MCT.Pi_root: Root, or NoNode for None
    Pi_current,  \* MCT.Pi_current: a node of the tree (NoNode: not set)
    nodes,       \* the Pi_struct objects: node name -> fields
    env,         \* the environment: its position and the answers it gave
    pc,          \* position inside get_state; "idle" between two calls
    needEnv,     \* local of get_state (FALSE between two calls)
    needSim,     \* local of get_state (FALSE between two calls)
    returned,    \* what the last call of get_state returned; while a call
                 \* runs, kind = "running"
    failed,      \* the assertion or lookup that aborted the run, or "none"
    sink,        \* sl_Buffer: the examples added so far
    hist,        \* history of the run, read by the properties only
    fn           \* a call of get_nrepeat_count or get_PI made on its own:
                 \* its arguments and, once it returned, its result

vars == << file_no, resign, min_step, max_step, phase, state, Pi_root,
           Pi_current, nodes, env, pc, needEnv, needSim, returned, failed,
           sink, hist, fn >>

\* no call of a numeric utility on its own
NoCall ==
    [op |-> "none", nact |-> 0, action |-> << >>, counts |-> << >>, p |-> 0,
     returned |-> FALSE, nrepeats |-> << >>, Pi |-> NoPi]

NoStep ==
    [node |-> NoNode, act |-> -1, valid |-> FALSE, nrep |-> 0, level |-> -1,
     isDone |-> FALSE, terminal |-> FALSE]
NoFlags == << FALSE, FALSE >>

\* traversals: terminal/resign events; scoreIn, repeatsIn: the scores the
\* driver passed to set_next and the nrepeats they were computed from;
\* lastStep: the last env.step call, the isDone it answered and whether the
\* rollout ended there; chain: the number of nested set_next calls of the
\* last write-back; simsHere: the simulate calls made for
\* the current node; lastFlags: the flags the last of them answered;
\* returnsHere: returns to the caller since the last of them (or since the
\* node became current), where 2 stands for two or more; envTick flips at every call of the environment;
\* expandPre: whether the counts of the last add_counts call had a positive
\* sum concentrated on isValid; idleCall: a call was made while finished;
\* dumped: write_data_to_buffer was called.
InitHist ==
    [traversals |-> 0, scoreIn |-> 0, repeatsIn |-> 0, lastStep |-> NoStep,
     lastFlags |-> NoFlags, simsHere |-> 0, returnsHere |-> 0, envTick |-> FALSE,
     expandPre |-> FALSE, idleCall |-> FALSE, dumped |-> FALSE, chain |-> 0]

\* ------------------------------------------------------------ environment
\* The observation the environment hands out at position pos: its validity
\* mask stands for the tensor, sims for the simulate calls that refreshed it.
Obs(e, pos) == [pos |-> pos, mask |-> e.memo[pos].mask, sims |-> 0]

\* resetAt(file_no) of a non-trivial instance: back to the root position
resetAt(e) == [e EXCEPT !.pos = Root]

\* the positions the environment has shown that are not done
NotDone(e) == {q \in DOMAIN e.memo : ~e.memo[q].isDone}

\* The answers a deterministic environment can give to step(a) at position
\* e.pos: the answer it gave before, or a fresh one.  A position that is not
\* done has a valid action, and there are at most MaxPositions of them.
StepAnswers(e, a) ==
    LET to == Append(e.pos, a)
    IN  IF to \in DOMAIN e.memo THEN {e.memo[to]}
        ELSE {[isDone |-> TRUE, mask |-> [x \in Acts |-> FALSE]]}
             \cup (IF Cardinality(NotDone(e)) >= MaxPositions THEN {}
                   ELSE {[isDone |-> FALSE, mask |-> m] :
                            m \in {mm \in Masks : \E x \in Acts : mm[x]}})

\* env.step(a), answered by ans
step(e, a, ans) ==
    LET to == Append(e.pos, a)
    IN  [pos |-> to,
         memo |-> [q \in DOMAIN e.memo \cup {to} |->
                      IF q = to THEN ans ELSE e.memo[q]]]

\* the flags env.simulate may answer after k earlier simulate calls for the
\* same node
SimAnswers(k) ==
    IF k + 1 >= MaxSims THEN {<< FALSE, FALSE >>} ELSE BOOLEAN \X BOOLEAN

\* ------------------------------------------------------------------- Init
\* MCT.__init__
Init ==
    /\ file_no \in FileNos
    /\ pc = "idle"
    /\ needEnv = FALSE
    /\ needSim = FALSE
    /\ returned = [kind |-> "nothing", state |-> NoState]
    /\ failed = "none"
    /\ sink = << >>
    /\ hist = InitHist
    /\ fn = NoCall
    /\ \/ \* resetAt returned None: solved by simplification
          /\ resign = -1
          /\ min_step = -1
          /\ max_step = -1
          /\ phase = "None"
          /\ state = NoState
          /\ Pi_root = NoNode
          /\ Pi_current = NoNode
          /\ nodes = [n \in {} |-> 0]
          /\ env = [pos |-> Root, memo |-> [n \in {} |-> 0]]
       \/ \E nrepeat \in 1 .. MaxRepeat, rs \in Resigns,
             m \in {mm \in Masks : \E x \in Acts : mm[x]} :
             LET e == [pos |-> Root,
                       memo |-> [n \in {Root} |-> [isDone |-> FALSE, mask |-> m]]]
             IN  /\ resign = rs
                 /\ min_step = rs
                 /\ max_step = 0
                 /\ phase = "False"
                 /\ state = Obs(e, Root)
                 /\ Pi_root = Root
                 /\ Pi_current = Root
                 /\ nodes = [n \in {Root} |->
                               add_state(Pi_struct(max_var1 * 2, nrepeat, 0, NoNode),
                                         Obs(e, Root))]
                 /\ env = e

\* -------------------------------------------------------------- add_counts
\* add_counts of node nd with the visit counts `counts`, p = 1 / tau(level)
\* and the drawn sequence `action`: the assertion that failed (or "none")
\* and the node as the call leaves it
add_counts(nd, counts, p, action) ==
    LET Pi == get_PI(counts, p)
        nrepeats == get_nrepeat_count(action, nd.size)
    IN  IF ~CountsConcentrated(counts, nd.isValid)
        THEN [failed |-> "counts", node |-> nd]
        ELSE IF ~PiMassOK(Pi, nd.isValid)
        THEN [failed |-> "Pi", node |-> [nd EXCEPT !.Pi = Pi]]
        ELSE IF ~RepeatsOK(nrepeats, nd.isValid, nd.repeat)
        THEN [failed |-> "nrepeats",
              node |-> [nd EXCEPT !.Pi = Pi, !.nrepeats = nrepeats]]
        ELSE [failed |-> "none",
              node |-> [nd EXCEPT !.Pi = Pi, !.nrepeats = nrepeats,
                                  !.children = ChildKeys(nd, nrepeats),
                                  !.evaluated = TRUE]]

\* the sequences np.random.choice can return in add_counts; when an earlier
\* assertion fails nothing is drawn
Draws(nd, counts, p) ==
    LET Pi == get_PI(counts, p)
    IN  IF CountsConcentrated(counts, nd.isValid) /\ PiMassOK(Pi, nd.isValid)
        THEN Samples(Pi, nd.repeat)
        ELSE {<< >>}

\* the tree after add_counts left node n as nd: the children are new nodes
WithChildren(t, n, nd) ==
    LET kids == {Append(n, i) : i \in nd.children}
    IN  [q \in DOMAIN t \cup kids |->
            IF q = n THEN nd
            ELSE IF q \in kids
                 THEN Pi_struct(nd.size, nd.nrepeats[q[Len(q)]], nd.level + 1, n)
                 ELSE t[q]]

\* ----------------------------------------------------------------- driver
\* a finished test that looks for the paused value instead of None
IsFinished_paused(ph) == ph = "True"

\* get_state, line 163: a finished driver returns None at once
IsFinished(ph) == ph = "None"

\* an inner loop that pauses whenever the driver is running, also when the
\* environment asked for no evaluation
MustPause_anyFlag(ne, ph) == ph = "False"

\* an inner loop that never resumes: it pauses whenever an evaluation is
\* needed, whatever the phase
MustPause_always(ne, ph) == ne

\* get_state, lines 169-170: the inner loop returns to the caller
MustPause(ne, ph) == ne /\ ph = "False"

\* a loop head that asks for an expansion of every node it comes to
NeedsExpansion_always(nd) == TRUE

\* get_state, line 166: the current node has no counts yet
NeedsExpansion(nd) == ~nd.evaluated

\* get_state, line 168: the condition of the inner loop
LoopAgain(ne, ns) == ne \/ ns

\* a resign test that lets the rollout go one level too deep
IsTerminal_late(isDone, level, rs) == isDone \/ level > rs

\* get_state, line 181: the rollout ends here
IsTerminal(isDone, level, rs) == isDone \/ level >= rs

\* a leaf score that is not weighted by the repeats of the action
LeafScore_unweighted(nd, next_act) == nd.level

\* a leaf score counted from the position after the step
LeafScore_after(nd, next_act) == (nd.level + 1) * nd.nrepeats[next_act]

\* get_state, line 184: the score written back from a leaf
LeafScore(nd, next_act) == nd.level * nd.nrepeats[next_act]

Tick(h) == [h EXCEPT !.envTick = ~@]

CallFinished ==
    /\ pc = "idle"
    /\ failed = "none"
    /\ IsFinished(phase)
    /\ returned' = [kind |-> "nodata", state |-> NoState]
    /\ hist' = [hist EXCEPT !.idleCall = TRUE]
    /\ UNCHANGED << file_no, resign, min_step, max_step, phase, state,
                    Pi_root, Pi_current, nodes, env, pc, needEnv, needSim,
                    failed, sink, fn >>

CallRunning ==
    /\ pc = "idle"
    /\ failed = "none"
    /\ ~IsFinished(phase)
    /\ pc' = "top"
    /\ returned' = [kind |-> "running", state |-> NoState]
    /\ UNCHANGED << file_no, resign, min_step, max_step, phase, state,
                    Pi_root, Pi_current, nodes, env, needEnv, needSim,
                    failed, sink, hist, fn >>

\* line 166-167: the head of the outer loop
LoopHead ==
    /\ pc = "top"
    /\ IF Pi_current = NoNode
       THEN \* a trivial instance has no attribute Pi_current
            needEnv' = needEnv /\ pc' = "aborted" /\ failed' = "AttributeError"
       ELSE IF NeedsExpansion(nodes[Pi_current])
       THEN needEnv' = TRUE /\ pc' = "inner" /\ failed' = failed
       ELSE needEnv' = needEnv /\ pc' = "act" /\ failed' = failed
    /\ UNCHANGED << file_no, resign, min_step, max_step, phase, state,
                    Pi_root, Pi_current, nodes, env, needSim, returned,
                    sink, hist, fn >>

\* lines 169-172: pause and hand the state to the caller
Pause ==
    /\ pc = "inner"
    /\ MustPause(needEnv, phase)
    /\ phase' = "True"
    /\ returned' = [kind |-> "state", state |-> state]
    /\ pc' = "idle"
    /\ needEnv' = FALSE
    /\ needSim' = FALSE
    /\ hist' = [hist EXCEPT !.returnsHere = IF @ < 2 THEN @ + 1 ELSE @]
    /\ UNCHANGED << file_no, resign, min_step, max_step, state,
                    Pi_root, Pi_current, nodes, env, failed, sink, fn >>

\* lines 173-175 and the loop test of line 168: resume if paused, simulate
Simulate ==
    /\ pc = "inner"
    /\ ~MustPause(needEnv, phase)
    /\ \E ans \in SimAnswers(hist.simsHere) :
          /\ phase' = IF needEnv THEN "False" ELSE phase
          /\ state' = [Obs(env, env.pos) EXCEPT !.sims = hist.simsHere + 1]
          /\ needEnv' = ans[1]
          /\ needSim' = ans[2]
          /\ pc' = IF LoopAgain(ans[1], ans[2]) THEN "inner" ELSE "expand"
          /\ hist' = [Tick(hist) EXCEPT !.lastFlags = ans,
                                        !.simsHere = @ + 1,
                                        !.returnsHere = 0]
    /\ UNCHANGED << file_no, resign, min_step, max_step, Pi_root,
                    Pi_current, nodes, env, returned, failed, sink, fn >>

\* line 176: add_counts(env.get_visit_count())
Expand ==
    /\ pc = "expand"
    /\ \E nd \in {nodes[Pi_current]} :
       \E counts \in CountVecs :
       \E action \in Draws(nd, counts, tau_inv(nd.level)) :
       \E r \in {add_counts(nd, counts, tau_inv(nd.level), action)} :
          /\ failed' = r.failed
          /\ nodes' = IF r.failed = "none"
                      THEN WithChildren(nodes, Pi_current, r.node)
                      ELSE [nodes EXCEPT ![Pi_current] = r.node]
          /\ pc' = IF r.failed = "none" THEN "act" ELSE "aborted"
          /\ hist' = [Tick(hist) EXCEPT
                        !.expandPre = /\ Sum(counts) > 0
                                      /\ Sum(counts) = MaskedSum(counts, nd.isValid),
                        !.lastFlags = NoFlags,
                        !.simsHere = 0,
                        !.returnsHere = 0]
    /\ UNCHANGED << file_no, resign, min_step, max_step, phase, state,
                    Pi_root, Pi_current, env, needEnv, needSim, returned, sink,
                    fn >>

\* lines 178-191: take the next action of the current node, step the
\* environment, then write the score back and rewind, or descend.  (The
\* values of the call are bound as \E x \in {e}, so that each is computed
\* once.)
Act ==
    /\ pc = "act"
    /\ \E g \in {get_next(nodes[Pi_current])} :
       \E nd \in {[nodes[Pi_current] EXCEPT !.next = g.next]} :
       \E t1 \in {[nodes EXCEPT ![Pi_current] = nd]} :
       \E next_act \in {g.ret} :
          IF next_act < 0
          THEN \* the assertion of line 179 fails
               /\ failed' = "next_act"
               /\ pc' = "aborted"
               /\ nodes' = t1
               /\ UNCHANGED << min_step, max_step, phase, state, Pi_current,
                               env, returned, hist >>
          ELSE \E ans \in StepAnswers(env, next_act) :
               \E e1 \in {step(env, next_act, ans)} :
               \E st \in {Obs(e1, e1.pos)} :
               \E h1 \in {[Tick(hist) EXCEPT
                             !.lastStep = [node |-> Pi_current, act |-> next_act,
                                           valid |-> nd.isValid[next_act],
                                           nrep |-> nd.nrepeats[next_act],
                                           level |-> nd.level,
                                           isDone |-> ans.isDone,
                                           terminal |-> IsTerminal(ans.isDone, nd.level, resign)]]} :
                  IF IsTerminal(ans.isDone, nd.level, resign)
                  THEN \E sc \in {LeafScore(nd, next_act)} :
                       \E r \in {set_next([t1 EXCEPT ![Pi_current].leafRepeats =
                                                        @ + nd.nrepeats[next_act]],
                                           Pi_current, sc)} :
                       \E h2 \in {[h1 EXCEPT !.traversals = @ + 1,
                                             !.scoreIn = @ + sc,
                                             !.repeatsIn = @ + nd.nrepeats[next_act],
                                             !.chain = r.chain]} :
                          /\ min_step' = IF nd.level < min_step THEN nd.level
                                         ELSE min_step
                          /\ max_step' = IF nd.level > max_step THEN nd.level
                                         ELSE max_step
                          /\ nodes' = r.tree
                          /\ failed' = failed
                          /\ IF r.ret < 0
                             THEN /\ phase' = "None"
                                  /\ returned' = [kind |-> "nodata", state |-> NoState]
                                  /\ pc' = "idle"
                                  /\ state' = st
                                  /\ env' = e1
                                  /\ hist' = h2
                                  /\ UNCHANGED Pi_current
                             ELSE /\ Pi_current' = Pi_root
                                  /\ env' = resetAt(e1)
                                  /\ state' = Obs(e1, Root)
                                  /\ pc' = "top"
                                  /\ hist' = Tick(h2)
                                  /\ UNCHANGED << phase, returned >>
                  ELSE IF next_act \notin nd.children
                  THEN \* children[next_act] raises KeyError
                       /\ failed' = "KeyError"
                       /\ pc' = "aborted"
                       /\ nodes' = t1
                       /\ state' = st
                       /\ env' = e1
                       /\ hist' = h1
                       /\ UNCHANGED << min_step, max_step, phase, Pi_current,
                                       returned >>
                  ELSE /\ Pi_current' = Append(Pi_current, next_act)
                       /\ nodes' = [t1 EXCEPT ![Append(Pi_current, next_act)] =
                                                 add_state(@, st)]
                       /\ state' = st
                       /\ env' = e1
                       /\ pc' = "top"
                       /\ hist' = h1
                       /\ UNCHANGED << min_step, max_step, phase, returned,
                                       failed >>
    /\ UNCHANGED << file_no, resign, Pi_root, needEnv, needSim, sink, fn >>

\* ------------------------------------------------------------- reporting
\* a report that gives a trivial instance the score 0
report_performance_zero ==
    IF Pi_root = NoNode
    THEN << file_no, 1, 0 >>
    ELSE << file_no, nodes[Pi_root].repeat, nodes[Pi_root].score >>

\* report_performance
report_performance ==
    IF Pi_root = NoNode
    THEN << file_no, 1, 1 >>
    ELSE << file_no, nodes[Pi_root].repeat, nodes[Pi_root].score >>

\* the argument of tanh in analyze_Pi_graph_dump, as a fraction:
\* (standard[1] - av) * 3 / standard[1] with av = score / repeat and
\* standard[1] = mean.num / mean.den; den = 0 is a division by zero
ScoreArg(nd, mean) ==
    [num |-> 3 * (mean.num * nd.repeat - nd.score * mean.den),
     den |-> nd.repeat * mean.num]

\* analyze_Pi_graph_dump: the examples added for the subtree of node n, the
\* children (in the order of the children dictionary) before the node
RECURSIVE analyze_Pi_graph_dump(_, _, _, _)
RECURSIVE DumpChildren(_, _, _, _, _)
\* a dump that adds the example of a node before those of its children
analyze_Pi_graph_dump_pre(fno, t, n, standard) ==
    IF ~t[n].evaluated THEN << >>
    ELSE << [file_no |-> fno, node |-> n, state |-> t[n].state,
             Pi |-> t[n].Pi, score |-> ScoreArg(t[n], standard[2]),
             repeat |-> t[n].repeat] >>
         \o DumpChildren(fno, t, n, standard, 0)

DumpChildren(fno, t, n, standard, i) ==
    IF i >= t[n].size THEN << >>
    ELSE (IF i \in t[n].children
          THEN analyze_Pi_graph_dump(fno, t, Append(n, i), standard)
          ELSE << >>)
         \o DumpChildren(fno, t, n, standard, i + 1)

analyze_Pi_graph_dump(fno, t, n, standard) ==
    IF ~t[n].evaluated THEN << >>
    ELSE DumpChildren(fno, t, n, standard, 0)
         \o << [file_no |-> fno, node |-> n, state |-> t[n].state,
                Pi |-> t[n].Pi, score |-> ScoreArg(t[n], standard[2]),
                repeat |-> t[n].repeat] >>

\* write_data_to_buffer: what the call adds to the buffer
write_data_to_buffer ==
    IF Pi_root = NoNode THEN << >>
    ELSE analyze_Pi_graph_dump(
             file_no, nodes, Pi_root,
             << min_step,
                [num |-> nodes[Pi_root].score, den |-> nodes[Pi_root].repeat],
                max_step >>)

\* The caller dumps the tree of a finished driver, once.
Dump ==
    /\ pc = "idle"
    /\ failed = "none"
    /\ IsFinished(phase)
    /\ ~hist.dumped
    /\ sink' = sink \o write_data_to_buffer
    /\ hist' = [hist EXCEPT !.dumped = TRUE]
    /\ UNCHANGED << file_no, resign, min_step, max_step, phase, state,
                    Pi_root, Pi_current, nodes, env, pc, needEnv, needSim,
                    returned, failed, fn >>

Next ==
    \/ CallFinished
    \/ CallRunning
    \/ LoopHead
    \/ Pause
    \/ Simulate
    \/ Expand
    \/ Act
    \/ Dump

Spec == Init /\ [][Next]_vars

\* The caller keeps calling get_state, and a call runs until it returns.
FairSpec == Spec /\ WF_vars(CallRunning \/ LoopHead \/ Pause \/ Simulate \/ Expand \/ Act)

\* ------------------------------------------- the numeric utilities alone
\* the sequences of at most MaxLen action indices below nact
ActionSeqs(nact) ==
    UNION {[1 .. n -> 0 .. (nact - 1)] : n \in 0 .. MaxLen}

\* the exponents p = 1 / tau tried: whole numbers, with none, one and two
\* rounds of the loop of get_PI
Exponents == {1, 2, 10, 20, 100}

\* the largest count tried with exponent p: count^p stays a 32-bit integer
CountCap(p) == IF p >= 100 THEN 1 ELSE IF p >= 20 THEN 2 ELSE 3

\* the arguments of the calls tried
FnCalls ==
    {[NoCall EXCEPT !.op = "get_nrepeat_count", !.nact = nact, !.action = action] :
        nact \in 1 .. MaxNact, action \in ActionSeqs(MaxNact)}
    \cup
    UNION {UNION {{[NoCall EXCEPT !.op = "get_PI", !.nact = nact, !.counts = counts, !.p = p] :
                     counts \in [0 .. (nact - 1) -> 0 .. CountCap(p)]} :
                  nact \in 1 .. MaxNact} : p \in Exponents}

\* a call is well-formed when its actions are indices below nact and its
\* counts have a positive sum
FnCallOK(c) ==
    IF c.op = "get_nrepeat_count"
    THEN \A i \in 1 .. Len(c.action) : c.action[i] < c.nact
    ELSE Sum(c.counts) > 0

\* a driver of a trivial instance, and one call of a numeric utility
FnInit ==
    /\ file_no \in FileNos
    /\ pc = "idle"
    /\ needEnv = FALSE
    /\ needSim = FALSE
    /\ returned = [kind |-> "nothing", state |-> NoState]
    /\ failed = "none"
    /\ sink = << >>
    /\ hist = InitHist
    /\ resign = -1
    /\ min_step = -1
    /\ max_step = -1
    /\ phase = "None"
    /\ state = NoState
    /\ Pi_root = NoNode
    /\ Pi_current = NoNode
    /\ nodes = [n \in {} |-> 0]
    /\ env = [pos |-> Root, memo |-> [n \in {} |-> 0]]
    /\ fn \in {c \in FnCalls : FnCallOK(c)}

Call_get_nrepeat_count ==
    /\ fn.op = "get_nrepeat_count"
    /\ ~fn.returned
    /\ fn' = [fn EXCEPT !.returned = TRUE,
                        !.nrepeats = get_nrepeat_count(fn.action, fn.nact)]
    /\ UNCHANGED << file_no, resign, min_step, max_step, phase, state,
                    Pi_root, Pi_current, nodes, env, pc, needEnv, needSim,
                    returned, failed, sink, hist >>

Call_get_PI ==
    /\ fn.op = "get_PI"
    /\ ~fn.returned
    /\ fn' = [fn EXCEPT !.returned = TRUE, !.Pi = get_PI(fn.counts, fn.p)]
    /\ UNCHANGED << file_no, resign, min_step, max_step, phase, state,
                    Pi_root, Pi_current, nodes, env, pc, needEnv, needSim,
                    returned, failed, sink, hist >>

FnNext ==
    \/ Call_get_nrepeat_count
    \/ Call_get_PI

FnSpec == FnInit /\ [][FnNext]_vars

\* ------------------------------------------------------------ properties
NonTrivial == Pi_root # NoNode
Done == phase = "None" /\ NonTrivial

\* C1 as stated: a finished run with a root of repeat budget R made exactly
\* R root-to-terminal traversals.
C1_ExactlyR == Done => hist.traversals = nodes[Root].repeat

\* C1, amended: a traversal credits nrepeats[action] repeats at once, so
\* the traversals of a run number at most the repeats they credit, these
\* never exceed the root's budget R, and set_next returns "no more actions"
\* at the root (the driver is finished) exactly when all R repeats are
\* credited, after at least one and at most R traversals.
C1_Exhaustion ==
    (NonTrivial /\ failed = "none") =>
        /\ hist.traversals <= hist.repeatsIn
        /\ hist.repeatsIn <= nodes[Root].repeat
        /\ (phase = "None") = (hist.repeatsIn = nodes[Root].repeat)
        /\ nodes[Root].evaluated =>
              ((phase = "None") = (get_next(nodes[Root]).ret < 0))
        /\ (phase = "None") => hist.traversals >= 1

\* a finished run whose single traversal credited two repeats
C1_Witness == Done /\ nodes[Root].repeat = 2 /\ hist.traversals = 1

\* C2: when the driver has finished a non-empty tree, the root's score is
\* the sum of the scores the driver passed to set_next.
C2_ScoreConservation == Done => nodes[Root].score = hist.scoreIn

\* a finished run in which a child handed a positive total, made of two
\* leaf scores, to the root
C2_Witness ==
    /\ Done
    /\ hist.scoreIn > 0
    /\ \E a \in nodes[Root].children :
          /\ nodes[<< a >>].evaluated
          /\ nodes[<< a >>].score = 2
          /\ \A b \in Acts : nodes[<< a >>].credited[b] = 1

\* the scenario of C3: one repeat, the default resign depth, and the
\* environment reports done on the first step from the root
C3_Scenario ==
    /\ NonTrivial
    /\ nodes[Root].repeat = 1
    /\ resign = DefaultResign
    /\ hist.lastStep.node = Root
    /\ << hist.lastStep.act >> \in DOMAIN env.memo
    /\ env.memo[<< hist.lastStep.act >>].isDone

\* C3 as stated: set_next is called once with score 1 * 1, the root's score
\* is 1, the driver is finished and report_performance is (file_no, 1, 1).
C3_AsStated ==
    C3_Scenario =>
        /\ hist.traversals = 1
        /\ hist.scoreIn = 1
        /\ nodes[Root].score = 1
        /\ phase = "None"
        /\ report_performance = << file_no, 1, 1 >>

\* C3, amended: the score is level * nrepeats with the level of the node
\* the step was taken from, which is 0 at the root: set_next is called once
\* with score 0 * 1 = 0, the root's score is 0, min_step and max_step are 0,
\* the driver is finished and report_performance is (file_no, 1, 0).
C3_OneStep ==
    C3_Scenario =>
        /\ hist.traversals = 1
        /\ hist.lastStep.level = 0
        /\ hist.lastStep.nrep = 1
        /\ hist.scoreIn = 0
        /\ nodes[Root].score = 0
        /\ min_step = 0
        /\ max_step = 0
        /\ phase = "None"
        /\ pc = "idle"
        /\ returned.kind = "nodata"
        /\ report_performance = << file_no, 1, 0 >>

C3_Witness == C3_Scenario /\ phase = "None"

\* C4: every action passed to env.step is a real index (the assertion of
\* line 179 never fails, no child lookup fails) that the current node
\* holds valid and with a positive nrepeats entry.
C4_StepValid ==
    /\ failed \notin {"next_act", "KeyError"}
    /\ hist.lastStep # NoStep =>
          /\ hist.lastStep.act \in Acts
          /\ hist.lastStep.valid
          /\ hist.lastStep.nrep > 0

\* a step taken from a node below the root that already had another action
\* credited, so one reached again after a rewind to the root
C4_Witness ==
    /\ hist.lastStep # NoStep
    /\ hist.lastStep.node # Root
    /\ \E b \in Acts :
          /\ b < hist.lastStep.act
          /\ nodes[hist.lastStep.node].credited[b] = 1

\* the step is a call of env.simulate
C5_Simulated == hist'.simsHere = hist.simsHere + 1
\* the step returns a state to the caller
C5_Returned == returned'.kind = "state" /\ returned.kind # "state"
\* what C5 asks of one step
C5_Step ==
    /\ C5_Simulated =>
          IF hist.simsHere = 0 \/ hist.lastFlags[1]
          THEN /\ hist.returnsHere = 1
               /\ phase = "True"
               /\ phase' = "False"
               /\ returned.kind = "running"
          ELSE /\ hist.returnsHere = 0
               /\ hist.lastFlags[2]
               /\ phase = "False"
               /\ phase' = "False"
    /\ C5_Returned =>
          /\ phase = "False"
          /\ phase' = "True"
          /\ returned'.state = state
          /\ hist.simsHere = 0 \/ hist.lastFlags[1]
    /\ pc' = "expand" =>
          /\ hist'.simsHere >= 1
          /\ hist'.lastFlags = << FALSE, FALSE >>
          /\ ~nodes[Pi_current].evaluated
\* C5: a simulate call that is the first for its node, or follows an answer
\* with needEnv, comes after exactly one return of the state to the caller:
\* the phase went from "False" to "True" at that return and goes back to
\* "False" as the next call resumes, before simulate runs.  A simulate call
\* that follows an answer with only needSim comes after no return.
\* add_counts runs only after an answer with both flags false.
C5_PauseResume == [][C5_Step]_vars

\* the inner loop is about to simulate again, without a return, after an
\* answer that asked for more simulation only
C5_Witness ==
    /\ pc = "inner"
    /\ hist.simsHere = 1
    /\ hist.lastFlags = << FALSE, TRUE >>
    /\ hist.returnsHere = 0
    /\ phase = "False"

\* C6: if the caller keeps calling get_state and no assertion aborts the
\* run, the driver is finished after finitely many calls.  (The environment
\* is deterministic, answers finitely many simulate calls per node with a
\* "need more" flag and has finitely many positions that are not done.)
C6_Termination == [](failed = "none") => <>(phase = "None")

\* a finished run of a non-trivial instance that took several calls
C6_Witness == Done /\ hist.traversals >= 2 /\ Cardinality(NotDone(env)) >= 2

\* what C7 asks of one step
C7_Step ==
    phase = "None" =>
        /\ UNCHANGED << nodes, Pi_root, Pi_current, min_step, max_step, phase,
                        state, env, resign, file_no, failed >>
        /\ hist'.envTick = hist.envTick
        /\ pc' = "idle"
        /\ returned' # returned => returned'.kind = "nodata"
        /\ report_performance' = report_performance
\* C7: a call of get_state on a finished driver returns None at once: the
\* tree, the cursors and scores, Pi_current, min_step, max_step, the phase
\* and the environment are left alone, no environment call is made, and
\* report_performance keeps its value.
C7_Absorbing == [][C7_Step]_vars

\* a call was made on a driver that had finished a non-empty tree
C7_Witness == Done /\ hist.idleCall /\ returned.kind = "nodata"

\* C8: a driver built on a trivial instance (resetAt returned None) is
\* finished from the start and has no tree; get_state returns None every
\* time, write_data_to_buffer adds nothing and report_performance is
\* (file_no, 1, 1).
C8_Trivial ==
    Pi_root = NoNode =>
        /\ phase = "None"
        /\ DOMAIN nodes = {}
        /\ pc = "idle"
        /\ failed = "none"
        /\ returned.kind \in {"nothing", "nodata"}
        /\ hist.idleCall => returned.kind = "nodata"
        /\ sink = << >>
        /\ write_data_to_buffer = << >>
        /\ report_performance = << file_no, 1, 1 >>

\* a trivial instance after a call of get_state and a dump
C8_Witness == Pi_root = NoNode /\ hist.idleCall /\ hist.dumped

\* the post-condition of add_counts at node n
C9_Expanded(n) ==
    /\ MaskedSum(nodes[n].nrepeats, nodes[n].isValid) = nodes[n].repeat
    /\ Sum(nodes[n].nrepeats) = nodes[n].repeat
    /\ \A a \in Acts : nodes[n].nrepeats[a] > 0 => nodes[n].Pi.num[a] > 0
    /\ nodes[n].children = {a \in Acts : nodes[n].nrepeats[a] > 0}
    /\ \A a \in nodes[n].children :
          /\ Append(n, a) \in DOMAIN nodes
          /\ nodes[Append(n, a)].repeat = nodes[n].nrepeats[a]
          /\ nodes[Append(n, a)].level = nodes[n].level + 1
          /\ nodes[Append(n, a)].parent = n
\* C9: add_counts with counts of positive sum concentrated on isValid
\* fails none of its three assertions, and every node it has expanded has
\* (nrepeats * isValid).sum() = nrepeats.sum() = repeat, children exactly
\* at the actions with a positive nrepeats entry, each child with that entry
\* as its repeat, one level below its parent.
C9_ExpandPost ==
    /\ hist.expandPre => failed \notin {"counts", "Pi", "nrepeats"}
    /\ \A n \in DOMAIN nodes : nodes[n].evaluated => C9_Expanded(n)

\* a node below the root, expanded with one invalid action and one child
C9_Witness ==
    \E n \in DOMAIN nodes :
        /\ nodes[n].evaluated
        /\ nodes[n].level = 1
        /\ hist.expandPre
        /\ \E a \in Acts : ~nodes[n].isValid[a]
        /\ Cardinality(nodes[n].children) = 1

\* the cursor and the credits of node n agree
C10_NodeOK(n) ==
    \A a \in Acts :
        /\ nodes[n].credited[a] <= 1
        /\ a < nodes[n].next =>
              \/ ~nodes[n].isValid[a]
              \/ nodes[n].nrepeats[a] = 0
              \/ nodes[n].credited[a] = 1
        /\ nodes[n].credited[a] = 1 =>
              /\ a < nodes[n].next
              /\ nodes[n].isValid[a]
              /\ nodes[n].nrepeats[a] > 0
              /\ \/ ~nodes[Append(n, a)].evaluated
                 \/ nodes[Append(n, a)].next >= nodes[Append(n, a)].size
C10_CursorOK == \A n \in DOMAIN nodes : nodes[n].evaluated => C10_NodeOK(n)
\* no cursor moves back in this step
C10_Monotone ==
    \A n \in DOMAIN nodes :
        /\ n \in DOMAIN nodes'
        /\ nodes'[n].next >= nodes[n].next
\* C10: at every expanded node, every index below the cursor is invalid,
\* has no repeats, or was credited by exactly one set_next call (made at a
\* terminal step from this node, or by the child once it was exhausted);
\* no index is credited twice or without the cursor having passed it; and
\* no cursor ever moves back.
C10_Cursor == []C10_CursorOK /\ [][C10_Monotone]_vars

\* the root's cursor passed an invalid index without a credit and then an
\* index credited by its exhausted child
C10_Witness ==
    /\ NonTrivial
    /\ nodes[Root].evaluated
    /\ ~nodes[Root].isValid[0]
    /\ nodes[Root].next = 2
    /\ nodes[Root].credited[0] = 0
    /\ nodes[Root].credited[1] = 1
    /\ nodes[<< 1 >>].evaluated

\* the number of occurrences of a in the sequence action
Occurrences(action, a) == Cardinality({i \in 1 .. Len(action) : action[i] = a})

\* C11: get_nrepeat_count returns the histogram of its input: for every
\* sequence of action indices below nact (unsorted, with repeats, empty, or
\* without action 0), result[a] is the number of occurrences of a, for every
\* a, and the result sums to the length of the input.
C11_Histogram ==
    (fn.op = "get_nrepeat_count" /\ fn.returned) =>
        /\ DOMAIN fn.nrepeats = 0 .. (fn.nact - 1)
        /\ \A a \in 0 .. (fn.nact - 1) :
               fn.nrepeats[a] = Occurrences(fn.action, a)
        /\ Sum(fn.nrepeats) = Len(fn.action)

\* get_nrepeat_count has returned for an unsorted input with a repeat and
\* without action 0
C11_Witness ==
    /\ fn.op = "get_nrepeat_count"
    /\ fn.returned
    /\ fn.action = << 2, 1, 2 >>
    /\ fn.nrepeats = [a \in 0 .. 2 |-> a]

\* C14: get_PI, for counts of positive sum and p = 1 / tau, returns a vector
\* that sums to 1 and equals counts^p divided by its sum, entry by entry:
\* raising to the 10th power and renormalising in rounds gives what one
\* exponentiation gives; with p = 1 it returns counts / counts.sum().
C14_Sharpen ==
    (fn.op = "get_PI" /\ fn.returned) =>
        /\ fn.Pi.den > 0
        /\ Sum(fn.Pi.num) = fn.Pi.den
        /\ fn.Pi = Normalised([a \in DOMAIN fn.counts |-> Pow(fn.counts[a], fn.p)])
        /\ fn.p = 1 =>
               \A a \in DOMAIN fn.counts :
                  fn.Pi.num[a] * Sum(fn.counts) = fn.counts[a] * fn.Pi.den

\* get_PI has returned after a round of its loop with an exponent left over,
\* for counts that are not all equal
C14_Witness ==
    /\ fn.op = "get_PI"
    /\ fn.returned
    /\ fn.p = 20
    /\ \E a, b \in DOMAIN fn.counts : fn.counts[a] = 1 /\ fn.counts[b] = 2
    /\ \E a, b \in DOMAIN fn.counts : fn.Pi.num[a] = 1 /\ fn.Pi.num[b] = Pow(2, 20)

\* node a is a proper ancestor of node b
IsAncestor(a, b) == Len(a) < Len(b) /\ SubSeq(b, 1, Len(a)) = a

\* the nodes add_counts has expanded
Expanded == {n \in DOMAIN nodes : nodes[n].evaluated}

\* C12: write_data_to_buffer on a finished non-trivial driver adds exactly
\* one example per expanded node and none for a node that was never
\* expanded, every node's example after those of all its expanded
\* descendants, the root's last, each with the node's own repeat as weight.
C12_PostOrder ==
    (Done /\ hist.dumped) =>
        /\ Len(sink) = Cardinality(Expanded)
        /\ \A n \in Expanded : \E i \in 1 .. Len(sink) : sink[i].node = n
        /\ \A i \in 1 .. Len(sink) :
              /\ sink[i].node \in Expanded
              /\ sink[i].repeat = nodes[sink[i].node].repeat
              /\ sink[i].state = nodes[sink[i].node].state
              /\ sink[i].Pi = nodes[sink[i].node].Pi
        /\ \A i, j \in 1 .. Len(sink) :
              IsAncestor(sink[i].node, sink[j].node) => j < i
        /\ sink[Len(sink)].node = Root

\* a finished tree with an expanded node below the root and a leaf that was
\* never expanded has been dumped
C12_Witness ==
    /\ Done
    /\ hist.dumped
    /\ Len(sink) >= 2
    /\ \E n \in DOMAIN nodes : ~nodes[n].evaluated

\* C13 as stated: no node ever gets a second add_state call.
C13_AsStated == \A n \in DOMAIN nodes : nodes[n].nstate <= 1

\* the state of node n is the observation of its position, its mask
\* included, and add_state ran at least once and at most repeat times
C13_NodeOK(n) ==
    /\ nodes[n].hasState <=> nodes[n].nstate >= 1
    /\ nodes[n].nstate <= nodes[n].repeat
    /\ nodes[n].hasState =>
          /\ nodes[n].state = Obs(env, n)
          /\ nodes[n].isValid = env.memo[n].mask
    /\ n = Root => nodes[n].nstate = 1

C13_Stable == \A n \in DOMAIN nodes : C13_NodeOK(n)

\* a later add_state call writes what the node holds already
C13_Rewrite ==
    \A n \in DOMAIN nodes :
       nodes[n].hasState =>
          /\ nodes'[n].state = nodes[n].state
          /\ nodes'[n].isValid = nodes[n].isValid
          /\ nodes'[n].nstate \in {nodes[n].nstate, nodes[n].nstate + 1}
          /\ nodes'[n].nstate > nodes[n].nstate => Pi_current' = n /\ Pi_current # n

\* C13, amended: add_state is called on a node each time the driver descends
\* into it (on the root once, at construction), so between one and repeat
\* times; with a deterministic environment every call after the first
\* writes the same state and isValid again, and their values never change.
C13_Lifecycle ==
    /\ []C13_Stable
    /\ [][C13_Rewrite]_vars

\* a node below the root that the driver descended into twice
C13_Witness ==
    \E n \in DOMAIN nodes : n # Root /\ nodes[n].nstate = 2 /\ Pi_current = n

\* the cursor of node n is at the end of the action space
Exhausted(n) == nodes[n].next >= nodes[n].size

\* node n has called set_next on its parent exactly when it is exhausted,
\* once, with its whole score, and the parent has credited its action once
C15_NodeOK(n) ==
    /\ nodes[n].handed <= 1
    /\ (n = Root \/ ~nodes[n].evaluated) => nodes[n].handed = 0
    /\ (n # Root /\ nodes[n].evaluated) =>
          /\ nodes[n].handed = 1 <=> Exhausted(n)
          /\ Done => nodes[n].handed = 1
    /\ nodes[n].handed = 1 =>
          /\ nodes[n].handedScore = nodes[n].score
          /\ nodes[nodes[n].parent].credited[n[Len(n)]] = 1
          /\ phase # "None" => Pi_current # n

C15_AllOK == \A n \in DOMAIN nodes : C15_NodeOK(n)

\* once node n has called set_next on its parent, its score stays, it makes
\* no second call, gets no state and does not become the current node
C15_After ==
    \A n \in DOMAIN nodes :
       nodes[n].handed = 1 =>
          /\ nodes'[n].score = nodes[n].score
          /\ nodes'[n].handed = 1
          /\ nodes'[n].nstate = nodes[n].nstate
          /\ Pi_current' = n => Pi_current = n

\* C15: every expanded node below the root calls set_next on its parent
\* exactly once in a run, in the set_next call that moves its own cursor to
\* the end of the action space, and passes its total score of that moment;
\* after that the driver never descends into it again and its score never
\* changes.
C15_BackpropOnce == []C15_AllOK /\ [][C15_After]_vars

\* a finished run in which an expanded node below the root received the
\* scores of two terminal steps and then handed their sum to the root
C15_Witness ==
    /\ Done
    /\ \E n \in DOMAIN nodes :
          /\ n # Root
          /\ nodes[n].handed = 1
          /\ nodes[n].credited = [a \in 0 .. (nodes[n].size - 1) |-> 1]
          /\ nodes[n].handedScore = 2
          /\ nodes[Root].score = 2

\* C16: the current node's level is at most resign; no node above that
\* level gets a state, is expanded or has env.step called from it; a step
\* from a node at level resign always ends the rollout; and a write-back
\* makes at most resign + 1 nested set_next calls.
C16_DepthBound ==
    NonTrivial =>
        /\ nodes[Pi_current].level <= resign
        /\ \A n \in DOMAIN nodes :
              /\ nodes[n].level = Len(n)
              /\ (nodes[n].hasState \/ nodes[n].evaluated) => nodes[n].level <= resign
        /\ hist.lastStep.node # NoNode =>
              /\ hist.lastStep.level <= resign
              /\ hist.lastStep.level = resign => hist.lastStep.terminal
        /\ hist.chain <= resign + 1
        /\ hist.lastStep.terminal => hist.chain <= hist.lastStep.level + 1

\* a node at level resign was expanded, the step from it was not done and
\* ended the rollout all the same, and the write-back went up to the root
C16_Witness ==
    /\ NonTrivial
    /\ resign = SmallResign
    /\ hist.lastStep.node # NoNode
    /\ hist.lastStep.level = resign
    /\ nodes[hist.lastStep.node].evaluated
    /\ ~hist.lastStep.isDone
    /\ hist.lastStep.terminal
    /\ hist.chain = resign + 1

\* the nrepeats credited at the terminal and resign events in the subtree
\* of node n
RECURSIVE SubtreeRepeats(_)
SubtreeRepeats(n) ==
    LET below == [i \in nodes[n].children |-> SubtreeRepeats(Append(n, i))]
    IN  nodes[n].leafRepeats + Sum(below)

\* C17: when the driver has finished, the nrepeats[action] credited at the
\* terminal and resign events of the run sum to the root's repeat; for every
\* expanded node those of the events in its subtree sum to the node's
\* repeat; and every action with sampled repeats was credited exactly once.
C17_RepeatConservation ==
    Done =>
        /\ hist.repeatsIn = nodes[Root].repeat
        /\ \A n \in Expanded :
              /\ SubtreeRepeats(n) = nodes[n].repeat
              /\ \A a \in 0 .. (nodes[n].size - 1) :
                    nodes[n].credited[a] = IF nodes[n].nrepeats[a] > 0 THEN 1 ELSE 0

\* a finished run with a rollout that ended at a step from the root and one
\* that ended below an expanded child
C17_Witness ==
    /\ Done
    /\ nodes[Root].leafRepeats = 1
    /\ \E n \in Expanded : n # Root /\ nodes[n].leafRepeats = 1

\* C18: when the driver has finished a non-empty tree, the score of the
\* root and of every expanded node lies between min_step * repeat and
\* max_step * repeat, and min_step <= max_step <= resign.
C18_ScoreRange ==
    Done =>
        /\ \A n \in Expanded :
              /\ min_step * nodes[n].repeat <= nodes[n].score
              /\ nodes[n].score <= max_step * nodes[n].repeat
        /\ min_step <= max_step
        /\ max_step <= resign

\* a finished run with rollouts that ended at two different levels: the
\* root's average lies strictly between them
C18_Witness ==
    /\ Done
    /\ min_step < max_step
    /\ min_step * nodes[Root].repeat < nodes[Root].score
    /\ nodes[Root].score < max_step * nodes[Root].repeat

\* C19 as stated: when write_data_to_buffer runs on a finished driver with a
\* non-empty tree, the mean depth Pi_root.score / Pi_root.repeat is strictly
\* positive and no example's score is a division by zero.
C19_MeanPositive ==
    (Done /\ hist.dumped) =>
        /\ nodes[Root].score > 0
        /\ \A i \in 1 .. Len(sink) : sink[i].score.den # 0

\* C20: between two calls of get_state, either the last call returned a
\* state, the phase is True, the current node is not expanded and the state
\* returned is the latest observation of the current node's position (of
\* resetAt or the step that led to it if no simulate call was made for the
\* node, of the last simulate call otherwise); or it returned None and the
\* phase is None.  The phase is False between calls only before the first
\* call.
C20_AtReturn ==
    (pc = "idle" /\ failed = "none") =>
        /\ returned.kind \in {"nothing", "state", "nodata"}
        /\ returned.kind = "nothing" =>
              IF NonTrivial THEN phase = "False" ELSE phase = "None"
        /\ returned.kind = "state" =>
              /\ phase = "True"
              /\ ~nodes[Pi_current].evaluated
              /\ returned.state = state
              /\ env.pos = Pi_current
              /\ returned.state =
                    [Obs(env, Pi_current) EXCEPT !.sims = hist.simsHere]
              /\ hist.simsHere = 0 => returned.state = nodes[Pi_current].state
        /\ returned.kind = "nodata" => phase = "None"
        /\ phase = "False" => returned.kind = "nothing"

\* a call has returned the state of a node below the root after a simulate
\* call that asked for an evaluation
C20_Witness ==
    /\ pc = "idle"
    /\ returned.kind = "state"
    /\ Pi_current # Root
    /\ hist.simsHere >= 1
====
